---- MODULE Spec2Model ----
(***************************************************************************)
(* A model of the finite state machine of src/src/fsm.ts: the class        *)
(* FiniteStateMachine<T> with its fluent Transitions<T> builder.           *)
(*                                                                         *)
(* A state of type T is a value that JavaScript compares with === and      *)
(* turns into a registry key with toString().  The model takes T to be     *)
(* number | string, so that two values that differ under === can share a   *)
(* key (the number 1 and the string "1").                                  *)
(*                                                                         *)
(* A callback is an opaque function of the embedding application.  A       *)
(* registry stores, for each callback, the ordinal of its registration     *)
(* under its key (1 for the first on(k, ...), 2 for the second, ...).      *)
(* What a callback does when the machine calls it is an input of that      *)
(* call: it returns true, returns false, or raises an exception.           *)
(* Under SpecReentrant it may also call reset() on the machine and return  *)
(* true; callbacks that call go() on the machine are not modelled.         *)
(*                                                                         *)
(* Four specifications share the actions: Spec (every method, callbacks    *)
(* that leave the machine alone), SpecBuilder (from and to only, with      *)
(* longer lists), SpecCollision (callbacks registered for the number 1     *)
(* only) and SpecReentrant (callbacks that may reset the machine).         *)
(*                                                                         *)
(* A registry is a function from keys to arrays.  A key the object does    *)
(* not hold yet and a key holding the empty array are both <<>>: every     *)
(* access in the source is preceded by "if (!reg[key]) reg[key] = []".     *)
(***************************************************************************)
EXTENDS Integers, Sequences, FiniteSets, TLC

\* ------------------------------------------------------------------------
\* Bounds of the model
\* ------------------------------------------------------------------------

\* most registrations made on one machine: edges stored and callbacks registered, together
MaxRegistrations == 3

\* most states in one from(...) or to(...) argument list
MaxArgs == 1

\* the longest list of states given to from(...) or to(...) where the builder
\* is studied on its own
MaxBuilderArgs == 2

\* ------------------------------------------------------------------------
\* Values of the state type T
\* ------------------------------------------------------------------------

Num(n) == [tag |-> "num", n |-> n, s |-> ""]

Str(s) == [tag |-> "str", n |-> 0, s |-> s]

Idle == Num(0)

Running == Num(1)

RunningText == Str("1")

States == {Idle, Running, RunningText}

\* a key that tells a number from the string of its digits
toStringTyped(state) ==
    IF state.tag = "num"
    THEN CASE state.n = 0 -> "number 0"
           [] state.n = 1 -> "number 1"
           [] state.n = 2 -> "number 2"
    ELSE state.s

\* Number.prototype.toString() of a one-digit number, String.prototype.toString()
toString(state) ==
    IF state.tag = "num"
    THEN CASE state.n = 0 -> "0"
           [] state.n = 1 -> "1"
           [] state.n = 2 -> "2"
    ELSE state.s

\* the start states machines are constructed with
StartStates == {Idle, Running}

Keys == {toString(s) : s \in States}

\* what a callback does when it is called
Rets == {"true", "false", "throw"}

\* what a callback that may call back into the engine does: the above, or call
\* reset() on the engine and return true
ReentrantRets == Rets \cup {"reset"}

VARIABLES
    currentState,          \* FiniteStateMachine.currentState
    _startState,           \* FiniteStateMachine._startState
    _transitionFunctions,  \* array of TransitionFunction: [from, to]
    _onCallbacks,          \* key -> array of callbacks
    _exitCallbacks,        \* key -> array of callbacks
    _enterCallbacks,       \* key -> array of callbacks
    last,                  \* the last call made on the machine: its argument, how it ended, currentState before it
    trace                  \* what the last call did, in order: callback invocations and the assignment of currentState

vars == <<currentState, _startState, _transitionFunctions, _onCallbacks,
          _exitCallbacks, _enterCallbacks, last, trace>>

NoState == [tag |-> "none", n |-> 0, s |-> ""]

Call(op, arg, outcome, cur) == [op |-> op, arg |-> arg, outcome |-> outcome, cur |-> cur]

\* the registry with no callbacks: {}
EmptyRegistry == [k \in Keys |-> <<>>]

\* new FiniteStateMachine<T>(startState)
Init ==
    /\ \E startState \in StartStates :
          /\ currentState = startState
          /\ _startState = startState
    /\ _transitionFunctions = <<>>
    /\ _onCallbacks = EmptyRegistry
    /\ _exitCallbacks = EmptyRegistry
    /\ _enterCallbacks = EmptyRegistry
    /\ last = Call("new", NoState, "returned", NoState)
    /\ trace = <<>>

\* ------------------------------------------------------------------------
\* Edge registration
\* ------------------------------------------------------------------------

\* new TransitionFunction<T>(fsm, from, to)
TransitionFunction(from, to) == [from |-> from, to |-> to]

\* a slip in _validTransition: the edge is looked up by its target alone
validTransitionToOnly(tfs, from, to) ==
    \E i \in 1..Len(tfs) : tfs[i].to = to

\* _validTransition reading the edges in both directions
validTransitionEitherWay(tfs, from, to) ==
    \E i \in DOMAIN tfs : \/ tfs[i].from = from /\ tfs[i].to = to
                          \/ tfs[i].from = to /\ tfs[i].to = from

\* this._transitionFunctions.some(tf => tf.from === from && tf.to === to), on the array tfs
_validTransition(tfs, from, to) ==
    \E i \in 1..Len(tfs) : tfs[i].from = from /\ tfs[i].to = to

\* a slip in addTransitions: the test for an edge already stored is left out
addTransitionNoLookup(tfs, from, to) ==
    IF from # to
    THEN Append(tfs, TransitionFunction(from, to))
    ELSE tfs

\* addTransitions without the test from !== to
addTransitionSelfLoops(tfs, from, to) ==
    IF ~_validTransition(tfs, from, to)
    THEN Append(tfs, TransitionFunction(from, to))
    ELSE tfs

\* addTransitions storing the new edge in place of the array
addTransitionReplacing(tfs, from, to) ==
    IF from # to /\ ~_validTransition(tfs, from, to)
    THEN <<TransitionFunction(from, to)>>
    ELSE tfs

\* the body of the inner forEach of addTransitions, for one (from, to)
addTransition(tfs, from, to) ==
    IF from # to /\ ~_validTransition(tfs, from, to)
    THEN Append(tfs, TransitionFunction(from, to))
    ELSE tfs

RECURSIVE forEachTo(_, _, _, _)
\* fcn.toStates.forEach(to => ...) from index j on, for one from
forEachTo(tfs, from, toStates, j) ==
    IF j > Len(toStates) THEN tfs
    ELSE forEachTo(addTransition(tfs, from, toStates[j]), from, toStates, j + 1)

RECURSIVE forEachFrom(_, _, _, _)
\* fcn.fromStates.forEach(from => ...) from index i on
forEachFrom(tfs, fromStates, toStates, i) ==
    IF i > Len(fromStates) THEN tfs
    ELSE forEachFrom(forEachTo(tfs, fromStates[i], toStates, 1), fromStates, toStates, i + 1)

\* FiniteStateMachine.addTransitions(fcn): the array after the call
addTransitions(tfs, fcn) == forEachFrom(tfs, fcn.fromStates, fcn.toStates, 1)

\* FiniteStateMachine.from(...states): the builder it returns
from(states) == [fromStates |-> states, toStates |-> <<>>]

\* Transitions.to(...states): the builder as handed to addTransitions
to(fcn, states) == [fcn EXCEPT !.toStates = states]

RECURSIVE SumLen(_, _)
SumLen(reg, keys) ==
    IF keys = {} THEN 0
    ELSE LET k == CHOOSE x \in keys : TRUE
         IN Len(reg[k]) + SumLen(reg, keys \ {k})

Callbacks == SumLen(_onCallbacks, Keys) + SumLen(_exitCallbacks, Keys) + SumLen(_enterCallbacks, Keys)

ArgLists == UNION {[1..n -> States] : n \in 0..MaxArgs}

\* the call fsm.from(...states), the builder it returns being put to no use
From(states) ==
    /\ from(states).fromStates = states
    /\ last' = Call("from", NoState, "returned", currentState)
    /\ trace' = <<>>
    /\ UNCHANGED <<currentState, _startState, _transitionFunctions, _onCallbacks,
                   _exitCallbacks, _enterCallbacks>>

\* fsm.from(...fromStates).to(...toStates)
FromTo(fromStates, toStates) ==
    LET tfs == addTransitions(_transitionFunctions, to(from(fromStates), toStates))
    IN /\ Len(tfs) + Callbacks <= MaxRegistrations
       /\ _transitionFunctions' = tfs
       /\ last' = Call("to", NoState, "returned", currentState)
       /\ trace' = <<>>
       /\ UNCHANGED <<currentState, _startState, _onCallbacks, _exitCallbacks, _enterCallbacks>>

\* ------------------------------------------------------------------------
\* Callback registration
\* ------------------------------------------------------------------------

\* a slip in on/onEnter/onExit: unshift for push
unshift(reg, key) == [reg EXCEPT ![key] = <<Len(reg[key]) + 1>> \o reg[key]]

\* reg[key].push(callback), the callback being the next one registered under the key
push(reg, key) == [reg EXCEPT ![key] = Append(reg[key], Len(reg[key]) + 1)]

\* fsm.on(state, callback)
On(state) ==
    /\ Len(_transitionFunctions) + Callbacks < MaxRegistrations
    /\ _onCallbacks' = push(_onCallbacks, toString(state))
    /\ last' = Call("on", state, "returned", currentState)
    /\ trace' = <<>>
    /\ UNCHANGED <<currentState, _startState, _transitionFunctions, _exitCallbacks, _enterCallbacks>>

\* fsm.onEnter(state, callback)
OnEnter(state) ==
    /\ Len(_transitionFunctions) + Callbacks < MaxRegistrations
    /\ _enterCallbacks' = push(_enterCallbacks, toString(state))
    /\ last' = Call("onEnter", state, "returned", currentState)
    /\ trace' = <<>>
    /\ UNCHANGED <<currentState, _startState, _transitionFunctions, _onCallbacks, _exitCallbacks>>

\* fsm.onExit(state, callback)
OnExit(state) ==
    /\ Len(_transitionFunctions) + Callbacks < MaxRegistrations
    /\ _exitCallbacks' = push(_exitCallbacks, toString(state))
    /\ last' = Call("onExit", state, "returned", currentState)
    /\ trace' = <<>>
    /\ UNCHANGED <<currentState, _startState, _transitionFunctions, _onCallbacks, _enterCallbacks>>

\* ------------------------------------------------------------------------
\* Validity query, reset
\* ------------------------------------------------------------------------

\* a slip in canGo: the edge is looked up in the wrong direction
canGoReversed(cur, state) == cur = state \/ _validTransition(_transitionFunctions, state, cur)

\* canGo without the case this.currentState === state
canGoEdgeOnly(cur, state) == _validTransition(_transitionFunctions, cur, state)

\* canGo answering true for every state
canGoAnywhere(cur, state) == cur = state \/ _validTransition(_transitionFunctions, cur, state) \/ state \in States

\* fsm.canGo(state), on a machine in state cur
canGo(cur, state) == cur = state \/ _validTransition(_transitionFunctions, cur, state)

\* a slip in canGo: = for ===, which assigns the argument to currentState
CanGoAssigning(state) ==
    /\ currentState' = state
    /\ last' = Call("canGo", state, "true", currentState)
    /\ trace' = <<>>
    /\ UNCHANGED <<_startState, _transitionFunctions, _onCallbacks, _exitCallbacks, _enterCallbacks>>

\* the call fsm.canGo(state)
CanGo(state) ==
    /\ last' = Call("canGo", state, IF canGo(currentState, state) THEN "true" ELSE "false", currentState)
    /\ trace' = <<>>
    /\ UNCHANGED <<currentState, _startState, _transitionFunctions, _onCallbacks,
                   _exitCallbacks, _enterCallbacks>>

\* a slip in reset: currentState is left as it is
resetNothing(cur, start) == cur

\* the state fsm.reset() assigns to currentState
reset(cur, start) == start

\* the call fsm.reset()
Reset ==
    /\ currentState' = reset(currentState, _startState)
    /\ last' = Call("reset", NoState, "returned", currentState)
    /\ trace' = <<>>
    /\ UNCHANGED <<_startState, _transitionFunctions, _onCallbacks, _exitCallbacks, _enterCallbacks>>

\* ------------------------------------------------------------------------
\* The guarded transition
\* ------------------------------------------------------------------------

Event(kind, id, ret, cur) == [kind |-> kind, id |-> id, ret |-> ret, cur |-> cur]

\* the state of a reduce or forEach in progress: the accumulator, whether a
\* callback has raised, the calls made so far, how many callbacks were called,
\* and this.currentState as the next callback will find it
Fold(accum, thrown, calls, n, cur) ==
    [accum |-> accum, thrown |-> thrown, calls |-> calls, n |-> n, cur |-> cur]

\* a slip in the reducers: the exception of a callback is caught and taken for false
callCatching(f, kind, id, rets) ==
    LET ret == rets[f.n + 1]
    IN Fold(ret \in {"true", "reset"}, FALSE, Append(f.calls, Event(kind, id, ret, f.cur)), f.n + 1,
            IF ret = "reset" THEN reset(f.cur, _startState) ELSE f.cur)

\* next.call(this), the callback doing what rets says for the n-th call of this
\* go: return true, return false, throw, or call this.reset() and return true
call(f, kind, id, rets) ==
    LET ret == rets[f.n + 1]
    IN Fold(ret \in {"true", "reset"}, ret = "throw", Append(f.calls, Event(kind, id, ret, f.cur)), f.n + 1,
            IF ret = "reset" THEN reset(f.cur, _startState) ELSE f.cur)

\* the reducer written next.call(this) && accum, which calls every guard
guardEvery(f, kind, id, rets) ==
    LET called == call(f, kind, id, rets)
    IN [called EXCEPT !.accum = called.accum /\ f.accum]

\* one step of the reducer: accum && next.call(this)
guard(f, kind, id, rets) ==
    IF f.accum THEN call(f, kind, id, rets) ELSE f

RECURSIVE reduce(_, _, _, _, _)
\* callbacks.reduce((accum, next) => accum && next.call(this), true) from index i on;
\* an exception leaves the reduce at once
reduce(f, kind, callbacks, rets, i) ==
    IF i > Len(callbacks) \/ f.thrown THEN f
    ELSE reduce(guard(f, kind, callbacks[i], rets), kind, callbacks, rets, i + 1)

RECURSIVE forEach(_, _, _, _)
\* callbacks.forEach(fcn => fcn.call(this)) from index i on
forEach(f, callbacks, rets, i) ==
    IF i > Len(callbacks) \/ f.thrown THEN f
    ELSE forEach(call(f, "on", callbacks[i], rets), callbacks, rets, i + 1)

\* a slip in the test: || for &&
commitEither(canExit, canEnter) == canExit \/ canEnter

\* the test of "if (canExit && canEnter)"
commit(canExit, canEnter) == canExit /\ canEnter

\* a slip in _transitionTo: the listeners are called before currentState is assigned
transitionToNotifyingFirst(cur, state, rets) ==
    LET canExit == reduce(Fold(TRUE, FALSE, <<>>, 0, cur), "exit", _exitCallbacks[toString(cur)], rets, 1)
        canEnter == IF canExit.thrown THEN canExit
                    ELSE reduce(Fold(TRUE, FALSE, canExit.calls, canExit.n, canExit.cur), "enter",
                                _enterCallbacks[toString(state)], rets, 1)
    IN IF canEnter.thrown
       THEN [currentState |-> canEnter.cur, thrown |-> TRUE, calls |-> canEnter.calls]
       ELSE IF commit(canExit.accum, canEnter.accum)
       THEN LET fired == forEach(Fold(TRUE, FALSE, canEnter.calls, canEnter.n, canEnter.cur),
                                 _onCallbacks[toString(state)], rets, 1)
            IN IF fired.thrown
               THEN [currentState |-> fired.cur, thrown |-> TRUE, calls |-> fired.calls]
               ELSE [currentState |-> state, thrown |-> FALSE,
                     calls |-> Append(fired.calls, Event("assign", 0, "", fired.cur))]
       ELSE [currentState |-> canEnter.cur, thrown |-> FALSE, calls |-> canEnter.calls]

\* _transitionTo taking the assignment back when an on-commit callback raises
\* or returns false
transitionToRollingBack(cur, state, rets) ==
    LET canExit == reduce(Fold(TRUE, FALSE, <<>>, 0, cur), "exit", _exitCallbacks[toString(cur)], rets, 1)
        canEnter == IF canExit.thrown THEN canExit
                    ELSE reduce(Fold(TRUE, FALSE, canExit.calls, canExit.n, canExit.cur), "enter",
                                _enterCallbacks[toString(state)], rets, 1)
    IN IF canEnter.thrown
       THEN [currentState |-> canEnter.cur, thrown |-> TRUE, calls |-> canEnter.calls]
       ELSE IF commit(canExit.accum, canEnter.accum)
       THEN LET fired == forEach(Fold(TRUE, FALSE, Append(canEnter.calls, Event("assign", 0, "", canEnter.cur)),
                                      canEnter.n, state),
                                 _onCallbacks[toString(state)], rets, 1)
            IN [currentState |-> IF fired.thrown \/ ~fired.accum THEN canEnter.cur ELSE fired.cur,
                thrown |-> fired.thrown, calls |-> fired.calls]
       ELSE [currentState |-> canEnter.cur, thrown |-> FALSE, calls |-> canEnter.calls]

\* _transitionTo leaving out the enter fold when the exit fold yielded false
transitionToSkippingEnter(cur, state, rets) ==
    LET canExit == reduce(Fold(TRUE, FALSE, <<>>, 0, cur), "exit", _exitCallbacks[toString(cur)], rets, 1)
        canEnter == IF canExit.thrown \/ ~canExit.accum THEN canExit
                    ELSE reduce(Fold(TRUE, FALSE, canExit.calls, canExit.n, canExit.cur), "enter",
                                _enterCallbacks[toString(state)], rets, 1)
    IN IF canEnter.thrown
       THEN [currentState |-> canEnter.cur, thrown |-> TRUE, calls |-> canEnter.calls]
       ELSE IF commit(canExit.accum, canEnter.accum)
       THEN LET fired == forEach(Fold(TRUE, FALSE, Append(canEnter.calls, Event("assign", 0, "", canEnter.cur)),
                                      canEnter.n, state),
                                 _onCallbacks[toString(state)], rets, 1)
            IN [currentState |-> fired.cur, thrown |-> fired.thrown, calls |-> fired.calls]
       ELSE [currentState |-> canEnter.cur, thrown |-> FALSE, calls |-> canEnter.calls]

\* fsm._transitionTo(state) on a machine in state cur: the new currentState,
\* whether a callback raised, and what was done. The arrays are looked up
\* before their first callback runs; the assignment writes state over whatever
\* currentState the guards have left
_transitionTo(cur, state, rets) ==
    LET canExit == reduce(Fold(TRUE, FALSE, <<>>, 0, cur), "exit", _exitCallbacks[toString(cur)], rets, 1)
        canEnter == IF canExit.thrown THEN canExit
                    ELSE reduce(Fold(TRUE, FALSE, canExit.calls, canExit.n, canExit.cur), "enter",
                                _enterCallbacks[toString(state)], rets, 1)
    IN IF canEnter.thrown
       THEN [currentState |-> canEnter.cur, thrown |-> TRUE, calls |-> canEnter.calls]
       ELSE IF commit(canExit.accum, canEnter.accum)
       THEN LET fired == forEach(Fold(TRUE, FALSE, Append(canEnter.calls, Event("assign", 0, "", canEnter.cur)),
                                      canEnter.n, state),
                                 _onCallbacks[toString(state)], rets, 1)
            IN [currentState |-> fired.cur, thrown |-> fired.thrown, calls |-> fired.calls]
       ELSE [currentState |-> canEnter.cur, thrown |-> FALSE, calls |-> canEnter.calls]

\* what the callbacks of one go(state) do, call by call: at most the exit guards
\* of the current key and the enter guards and listeners of the target key are called
Behaviours(state) ==
    [1..(Len(_exitCallbacks[toString(currentState)]) + Len(_enterCallbacks[toString(state)])
          + Len(_onCallbacks[toString(state)])) -> Rets]

\* go assigning the target whatever the guards answered
GoAssigning(state) ==
    \/ /\ ~canGo(currentState, state)
       /\ last' = Call("go", state, "error", currentState)
       /\ trace' = <<>>
       /\ UNCHANGED <<currentState, _startState, _transitionFunctions, _onCallbacks,
                      _exitCallbacks, _enterCallbacks>>
    \/ /\ canGo(currentState, state)
       /\ \E rets \in Behaviours(state) :
             LET done == _transitionTo(currentState, state, rets)
             IN /\ currentState' = state
                /\ last' = Call("go", state, IF done.thrown THEN "exception" ELSE "returned", currentState)
                /\ trace' = done.calls
       /\ UNCHANGED <<_startState, _transitionFunctions, _onCallbacks, _exitCallbacks, _enterCallbacks>>

\* fsm.go(state), the callbacks it calls doing what rets says
Go(state) ==
    \/ /\ ~canGo(currentState, state)
       /\ last' = Call("go", state, "error", currentState)
       /\ trace' = <<>>
       /\ UNCHANGED <<currentState, _startState, _transitionFunctions, _onCallbacks,
                      _exitCallbacks, _enterCallbacks>>
    \/ /\ canGo(currentState, state)
       /\ \E rets \in Behaviours(state) :
             LET done == _transitionTo(currentState, state, rets)
             IN /\ currentState' = done.currentState
                /\ last' = Call("go", state, IF done.thrown THEN "exception" ELSE "returned", currentState)
                /\ trace' = done.calls
       /\ UNCHANGED <<_startState, _transitionFunctions, _onCallbacks,
                      _exitCallbacks, _enterCallbacks>>

\* what the callbacks of one go(state) do when they may call back into the engine
ReentrantBehaviours(state) ==
    [1..(Len(_exitCallbacks[toString(currentState)]) + Len(_enterCallbacks[toString(state)])
          + Len(_onCallbacks[toString(state)])) -> ReentrantRets]

\* fsm.go(state) with callbacks that may call reset() on the engine
GoReentrant(state) ==
    \/ /\ ~canGo(currentState, state)
       /\ last' = Call("go", state, "error", currentState)
       /\ trace' = <<>>
       /\ UNCHANGED <<currentState, _startState, _transitionFunctions, _onCallbacks,
                      _exitCallbacks, _enterCallbacks>>
    \/ /\ canGo(currentState, state)
       /\ \E rets \in ReentrantBehaviours(state) :
             LET done == _transitionTo(currentState, state, rets)
             IN /\ currentState' = done.currentState
                /\ last' = Call("go", state, IF done.thrown THEN "exception" ELSE "returned", currentState)
                /\ trace' = done.calls
       /\ UNCHANGED <<_startState, _transitionFunctions, _onCallbacks,
                      _exitCallbacks, _enterCallbacks>>

Next ==
    \/ \E f \in ArgLists : From(f)
    \/ \E f \in ArgLists, t \in ArgLists : FromTo(f, t)
    \/ \E s \in States : On(s)
    \/ \E s \in States : OnEnter(s)
    \/ \E s \in States : OnExit(s)
    \/ \E s \in States : CanGo(s)
    \/ \E s \in States : Go(s)
    \/ Reset

Spec == Init /\ [][Next]_vars

\* the builder on its own: a program that only declares transitions, with
\* lists of up to MaxBuilderArgs states
BuilderArgLists == UNION {[1..n -> States] : n \in 0..MaxBuilderArgs}

NextBuilder ==
    \/ \E f \in BuilderArgLists : From(f)
    \/ \E f \in BuilderArgLists, t \in BuilderArgLists : FromTo(f, t)

SpecBuilder == Init /\ [][NextBuilder]_vars

\* a program that registers its callbacks for the number 1 only, and declares
\* edges and moves between all the states
NextCollision ==
    \/ \E f \in ArgLists, t \in ArgLists : FromTo(f, t)
    \/ On(Running)
    \/ OnEnter(Running)
    \/ OnExit(Running)
    \/ \E s \in States : CanGo(s)
    \/ \E s \in States : Go(s)
    \/ Reset

SpecCollision == Init /\ [][NextCollision]_vars

\* a program whose callbacks may call reset() on the engine they are registered with
NextReentrant ==
    \/ \E f \in ArgLists, t \in ArgLists : FromTo(f, t)
    \/ \E s \in States : On(s)
    \/ \E s \in States : OnEnter(s)
    \/ \E s \in States : OnExit(s)
    \/ \E s \in States : GoReentrant(s)
    \/ Reset

SpecReentrant == Init /\ [][NextReentrant]_vars
\* ------------------------------------------------------------------------
\* Properties
\* ------------------------------------------------------------------------

\* an edge (f, t) is registered
HasEdge(f, t) == \E i \in DOMAIN _transitionFunctions :
                    _transitionFunctions[i] = [from |-> f, to |-> t]

\* the last call was a go that passed validation
Validated == last.op = "go" /\ (last.arg = last.cur \/ HasEdge(last.cur, last.arg))

\* the calls of the last go to callbacks of one kind, in order
Calls(kind) == SelectSeq(trace, LAMBDA e : e.kind = kind)

GuardCalls == SelectSeq(trace, LAMBDA e : e.kind \in {"exit", "enter"})

Returned(calls, ret) == \E i \in DOMAIN calls : calls[i].ret = ret

\* the last go assigned currentState
Committed == Calls("assign") # <<>>

\* the guards and listeners the last go(target) had to consult
ExitGuards == _exitCallbacks[toString(last.cur)]

EnterGuards == _enterCallbacks[toString(last.arg)]

Listeners == _onCallbacks[toString(last.arg)]

\* C1: structural rejection. A go(X) with X # currentState and no edge
\* (currentState, X) raises the error, leaves currentState as it was and calls
\* no exit guard, enter guard or on-commit callback.
StructuralRejection ==
    (last.op = "go" /\ last.arg # last.cur /\ ~HasEdge(last.cur, last.arg))
        => /\ last.outcome = "error"
           /\ currentState = last.cur
           /\ trace = <<>>

\* C1: a go was rejected for want of an edge, on a machine that has edges and
\* has guards and a listener it could have called
StructuralRejectionReached ==
    /\ last.op = "go" /\ last.outcome = "error"
    /\ _transitionFunctions # <<>>
    /\ Len(ExitGuards) + Len(EnterGuards) + Len(Listeners) > 0

\* C2 as claimed: a validated go in which an exit guard or an enter guard
\* returned false returns normally, leaves currentState as it was and calls no
\* on-commit callback; and a validated go commits iff both folds yield true.
GuardedRejectionAsClaimed ==
    /\ (Validated /\ Returned(GuardCalls, "false"))
          => /\ last.outcome = "returned"
             /\ currentState = last.cur
             /\ Calls("on") = <<>>
    /\ (Validated /\ ~Returned(GuardCalls, "throw"))
          => (Committed <=> \A i \in DOMAIN GuardCalls : GuardCalls[i].ret = "true")

\* C2, amended: the same, for a go in which no enter guard raises an exception.
\* In every validated go with a guard returning false, currentState is left as
\* it was and no on-commit callback is called.
GuardedRejection ==
    /\ (Validated /\ Returned(GuardCalls, "false"))
          => /\ ~Returned(Calls("enter"), "throw") => last.outcome = "returned"
             /\ currentState = last.cur
             /\ ~Committed
             /\ Calls("on") = <<>>
    /\ (Validated /\ ~Returned(GuardCalls, "throw"))
          => (Committed <=> \A i \in DOMAIN GuardCalls : GuardCalls[i].ret = "true")

\* C2: over an edge (A, B), the exit guard of A returned false and the enter
\* guard of B returned true, and go returned
GuardedRejectionReached ==
    /\ last.op = "go" /\ last.arg # last.cur /\ HasEdge(last.cur, last.arg)
    /\ Returned(Calls("exit"), "false")
    /\ Returned(Calls("enter"), "true")
    /\ last.outcome = "returned"

\* every guard of the last go was called and returned true
GuardsPassed ==
    /\ Len(Calls("exit")) = Len(ExitGuards)
    /\ Len(Calls("enter")) = Len(EnterGuards)
    /\ \A i \in DOMAIN GuardCalls : GuardCalls[i].ret = "true"

\* C3 as claimed: over a registered edge (A, B), with every guard absent or
\* returning true, go(B) sets currentState to B and calls every on-commit
\* callback registered for B exactly once, in the order of registration.
SuccessfulTransitionAsClaimed ==
    (last.op = "go" /\ HasEdge(last.cur, last.arg) /\ GuardsPassed)
        => /\ currentState = last.arg
           /\ Len(Calls("on")) = Len(Listeners)
           /\ \A i \in DOMAIN Calls("on") : Calls("on")[i].id = i

\* C3, amended: go(B) sets currentState to B and calls the on-commit callbacks
\* registered for B in the order of registration, each once, up to and
\* including the first that raises an exception: all of them when none raises.
SuccessfulTransition ==
    (last.op = "go" /\ HasEdge(last.cur, last.arg) /\ GuardsPassed)
        => LET fired == Calls("on")
           IN /\ currentState = last.arg
              /\ Committed
              /\ \A i \in DOMAIN fired : fired[i].id = i
              /\ \A i \in DOMAIN fired : i < Len(fired) => fired[i].ret # "throw"
              /\ \/ Len(fired) = Len(Listeners)
                 \/ fired # <<>> /\ fired[Len(fired)].ret = "throw"

\* C3: a go over an edge called two on-commit callbacks of its target, neither raising
SuccessfulTransitionReached ==
    /\ last.op = "go" /\ last.arg # last.cur /\ HasEdge(last.cur, last.arg)
    /\ currentState = last.arg
    /\ Len(Listeners) = 2
    /\ Len(Calls("on")) = 2
    /\ last.outcome = "returned"

\* the calls made by one fold: the callbacks 1, 2, ... of the array in order,
\* up to and including the first that does not return true
FoldStopsAtFirstFailure(calls, callbacks) ==
    /\ Len(calls) <= Len(callbacks)
    /\ \A i \in DOMAIN calls : calls[i].id = i
    /\ \A i \in DOMAIN calls : i < Len(calls) => calls[i].ret = "true"
    /\ Len(calls) < Len(callbacks) => (calls # <<>> /\ calls[Len(calls)].ret # "true")

CanGoIffSelfOrEdge ==
    /\ last.op = "canGo"
          => (last.outcome = "true" <=> (last.arg = currentState \/ HasEdge(currentState, last.arg)))
    /\ canGo(currentState, currentState)

\* C5: canGo answered true for another state over an edge, and a canGo can answer false
CanGoIffSelfOrEdgeReached ==
    /\ last.op = "canGo" /\ last.outcome = "true"
    /\ last.arg # currentState
    /\ \E s \in States : ~canGo(currentState, s)
\* C6: reset() sets currentState to the start state given to the constructor,
\* whatever guards are registered, and calls no callback.
ResetToStart ==
    last.op = "reset" => (currentState = _startState /\ trace = <<>>)

\* C6: a reset brought the machine back from another state, for which an exit
\* guard is registered, to the start state, for which an enter guard or a
\* listener is registered
ResetToStartReached ==
    /\ last.op = "reset"
    /\ last.cur # _startState
    /\ _exitCallbacks[toString(last.cur)] # <<>>
    /\ Len(_enterCallbacks[toString(_startState)]) + Len(_onCallbacks[toString(_startState)]) > 0

\* the edges stored
Edges == {_transitionFunctions[i] : i \in DOMAIN _transitionFunctions}

\* C7: after any calls of from(...).to(...), the edge array holds no edge with
\* from = to and holds each (from, to) pair at most once; a call that registers
\* no pair that is not already there leaves the array as it was.
EdgesWellFormed ==
    [][/\ \A i \in DOMAIN _transitionFunctions' :
             /\ _transitionFunctions'[i].from # _transitionFunctions'[i].to
             /\ \A j \in DOMAIN _transitionFunctions' :
                   _transitionFunctions'[i] = _transitionFunctions'[j] => i = j
       /\ (last'.op = "to" /\ Edges' \subseteq Edges)
             => _transitionFunctions' = _transitionFunctions]_vars

\* C7: a to(...) returned on a machine holding two edges
EdgesWellFormedReached ==
    /\ last.op = "to"
    /\ Len(_transitionFunctions) = 2

\* C8: in a go that commits, every exit guard is called before every enter
\* guard, every enter guard before currentState is assigned, and every
\* on-commit callback after it; a guard sees the old currentState and an
\* on-commit callback the new one, and none is called without the assignment.
PhaseOrdering ==
    last.op = "go"
        => /\ \A i, j \in DOMAIN trace :
                 (trace[i].kind = "exit" /\ trace[j].kind \in {"enter", "assign", "on"}) => i < j
           /\ \A i, j \in DOMAIN trace :
                 (trace[i].kind = "enter" /\ trace[j].kind \in {"assign", "on"}) => i < j
           /\ \A i, j \in DOMAIN trace :
                 (trace[i].kind = "assign" /\ trace[j].kind = "on") => i < j
           /\ Len(Calls("assign")) <= 1
           /\ Calls("on") # <<>> => Committed
           /\ \A i \in DOMAIN trace :
                 /\ trace[i].kind \in {"exit", "enter", "assign"} => trace[i].cur = last.cur
                 /\ trace[i].kind = "on" => trace[i].cur = last.arg
           /\ Committed => currentState = last.arg

\* C8: a go over an edge called an enter guard, assigned currentState and then
\* called an on-commit callback
PhaseOrderingReached ==
    /\ last.op = "go" /\ last.arg # last.cur
    /\ Calls("enter") # <<>>
    /\ Committed
    /\ Calls("on") # <<>>
    /\ currentState = last.arg

\* C9: a call of canGo changes nothing of the machine and calls no callback.
CanGoPure ==
    [][last'.op = "canGo"
          => /\ UNCHANGED <<currentState, _startState, _transitionFunctions,
                            _onCallbacks, _exitCallbacks, _enterCallbacks>>
             /\ trace' = <<>>]_vars

\* C9: canGo was called on a machine with an edge and callbacks
CanGoPureReached ==
    /\ last.op = "canGo"
    /\ _transitionFunctions # <<>>
    /\ Callbacks > 0

\* C10: when an exit guard or an enter guard raises an exception during go, the
\* exception reaches the caller, no guard is called after it, currentState is
\* left as it was and no on-commit callback is called.
GuardExceptionPropagates ==
    (last.op = "go" /\ Returned(GuardCalls, "throw"))
        => /\ last.outcome = "exception"
           /\ trace[Len(trace)].ret = "throw"
           /\ \A i \in DOMAIN trace : trace[i].ret = "throw" => i = Len(trace)
           /\ ~Committed
           /\ currentState = last.cur
           /\ Calls("on") = <<>>

\* C10: over an edge, an exit guard raised with another guard still to be called
GuardExceptionPropagatesReached ==
    /\ last.op = "go" /\ last.arg # last.cur
    /\ Returned(Calls("exit"), "throw")
    /\ Len(ExitGuards) + Len(EnterGuards) = 2
    /\ Len(trace) = 1

\* the pairs (f, t) of F x T with f # t, as edges
CrossProduct(F, T) ==
    {TransitionFunction(F[i], T[j]) : i \in DOMAIN F, j \in DOMAIN T} \ {TransitionFunction(x, x) : x \in States}

Range(seq) == {seq[i] : i \in DOMAIN seq}

\* the engine apart from its edges
engineButEdges == <<currentState, _startState, _onCallbacks, _exitCallbacks, _enterCallbacks>>

\* C11: builder cross product. from(F) alone changes nothing in the engine; a
\* following to(T) makes the edge set the previous edge set united with
\* {(f, t) : f in F, t in T, f # t}, keeps the edges stored before in place and
\* changes nothing else; when F or T is empty no edge is added.
BuilderCrossProduct ==
    /\ [](\A F \in BuilderArgLists, T \in BuilderArgLists :
             LET added == addTransitions(_transitionFunctions, to(from(F), T))
             IN /\ Range(added) = Edges \cup CrossProduct(F, T)
                /\ SubSeq(added, 1, Len(_transitionFunctions)) = _transitionFunctions
                /\ (F = <<>> \/ T = <<>>) => added = _transitionFunctions)
    /\ [][/\ last'.op = "from" => UNCHANGED <<_transitionFunctions, engineButEdges>>
          /\ last'.op = "to" => UNCHANGED engineButEdges]_vars

\* C11: from(a, b).to(b, a) stored the two edges (a, b) and (b, a) of its
\* cross product, and none for the pairs (a, a) and (b, b), on an engine that
\* had another edge before and keeps it
BuilderCrossProductReached ==
    /\ last.op = "to"
    /\ Len(_transitionFunctions) = 3
    /\ \E a, b \in States :
          /\ a # b
          /\ SubSeq(_transitionFunctions, 2, 3)
                = <<TransitionFunction(a, b), TransitionFunction(b, a)>>
          /\ _transitionFunctions[1] \notin {TransitionFunction(a, b), TransitionFunction(b, a)}

\* C12: currentState changes only in the commit step of go or in reset. After
\* on, onEnter, onExit, from, to and canGo it is what it was before the call;
\* after a go that raised the structural error, or in which a guard returned
\* false, it is what it was before the call; and a go after which it differs
\* has made the assignment, to its target.
CurrentStateFrame ==
    /\ last.op \in {"on", "onEnter", "onExit", "from", "to", "canGo"} => currentState = last.cur
    /\ (last.op = "go" /\ last.outcome = "error") => currentState = last.cur
    /\ (Validated /\ Returned(GuardCalls, "false")) => currentState = last.cur
    /\ (last.op = "go" /\ currentState # last.cur) => (Committed /\ currentState = last.arg)
    /\ (last.op # "new" /\ currentState # last.cur) => last.op \in {"go", "reset"}

\* C12: away from the start state, a go over an edge to another state was
\* rejected by a guard
CurrentStateFrameReached ==
    /\ last.op = "go" /\ last.arg # last.cur /\ HasEdge(last.cur, last.arg)
    /\ Returned(GuardCalls, "false")
    /\ currentState # _startState

\* the third state of the documented scenario
Done == RunningText

\* the documented scenario: edges Idle -> Running and Running -> Done only,
\* start state Idle, no guards and no listeners
Scenario ==
    /\ _startState = Idle
    /\ Edges = {TransitionFunction(Idle, Running), TransitionFunction(Running, Done)}
    /\ Callbacks = 0

\* C13: edges are directed. In the documented scenario canGo(Done) is false in
\* Idle; go(Running) in Idle and go(Done) in Running commit without error; in
\* Done, canGo(Idle) is false and canGo(Done) is true. In general canGo(A) is
\* true in a state B # A only if the edge (B, A) itself is registered, so
\* registering (A, B) does not make it true.
EdgesDirected ==
    /\ Scenario
          => /\ currentState = Idle => ~canGo(currentState, Done)
             /\ (last.op = "canGo" /\ last.cur = Idle /\ last.arg = Done) => last.outcome = "false"
             /\ (last.op = "go" /\ last.cur = Idle /\ last.arg = Running)
                   => (last.outcome = "returned" /\ currentState = Running)
             /\ (last.op = "go" /\ last.cur = Running /\ last.arg = Done)
                   => (last.outcome = "returned" /\ currentState = Done)
             /\ currentState = Done
                   => (~canGo(currentState, Idle) /\ canGo(currentState, Done))
             /\ (last.op = "canGo" /\ last.cur = Done)
                   => (last.outcome = "true" <=> last.arg = Done)
    /\ \A A \in States, B \in States :
          (A # B /\ canGo(B, A)) => HasEdge(B, A)
    /\ (last.op = "canGo" /\ last.outcome = "true" /\ last.arg # last.cur)
          => HasEdge(last.cur, last.arg)

\* C13: the documented scenario has arrived in Done by go(Done) from Running,
\* where the edge (Running, Done) is registered and (Done, Running) is not
EdgesDirectedReached ==
    /\ Scenario
    /\ last.op = "go" /\ last.cur = Running /\ last.arg = Done
    /\ currentState = Done

\* the last call was go(currentState)
SelfTransition == last.op = "go" /\ last.arg = last.cur

\* the calls made by the forEach over the listeners: the callbacks 1, 2, ... in
\* order, up to and including the first that raises
ForEachStopsAtFirstThrow(fired, callbacks) ==
    /\ Len(fired) <= Len(callbacks)
    /\ \A i \in DOMAIN fired : fired[i].id = i
    /\ \A i \in DOMAIN fired : i < Len(fired) => fired[i].ret # "throw"
    /\ Len(fired) < Len(callbacks) => (fired # <<>> /\ fired[Len(fired)].ret = "throw")

CommitIsFinal ==
    (last.op = "go" /\ Committed)
        => /\ currentState = last.arg
           /\ \A i \in DOMAIN Calls("on") : Calls("on")[i].cur = last.arg
           /\ last.outcome = (IF Returned(Calls("on"), "throw") THEN "exception" ELSE "returned")

\* C15: a go over an edge to another state made the assignment, then one
\* on-commit callback returned false and the next raised
CommitIsFinalReached ==
    /\ last.op = "go" /\ Committed
    /\ last.arg # last.cur
    /\ Returned(Calls("on"), "false")
    /\ Returned(Calls("on"), "throw")
    /\ last.outcome = "exception"

\* the two states of the model that are different values with one string
\* conversion: the number 1 and the string "1"
Colliding == {Running, RunningText}

\* the array of a registry that a call on*(state) has just pushed to
Pushed == CASE last.op = "on" -> _onCallbacks[toString(last.arg)]
            [] last.op = "onEnter" -> _enterCallbacks[toString(last.arg)]
            [] last.op = "onExit" -> _exitCallbacks[toString(last.arg)]

\* the same registry's array for state
PushedFor(state) == CASE last.op = "on" -> _onCallbacks[toString(state)]
                      [] last.op = "onEnter" -> _enterCallbacks[toString(state)]
                      [] last.op = "onExit" -> _exitCallbacks[toString(state)]

\* C16: key collision merges callbacks but not edges. For S1 # S2 with equal
\* string conversions: after on/onEnter/onExit(S1) the callback just registered
\* is the last of the one array that serves S2 as well, behind everything
\* registered for either state before; a go out of S2, or into S2, runs the
\* folds and the notification over the arrays of S1; and an edge into S1 makes
\* neither canGo(S2) true nor go(S2) pass validation.
KeyCollision ==
    \A S1 \in Colliding, S2 \in Colliding :
        S1 # S2
           => /\ (last.op \in {"on", "onEnter", "onExit"} /\ last.arg = S1)
                    => /\ PushedFor(S2) = Pushed
                       /\ PushedFor(S2) # <<>>
                       /\ \A i \in DOMAIN PushedFor(S2) : PushedFor(S2)[i] = i
              /\ (Validated /\ last.cur = S2)
                    => FoldStopsAtFirstFailure(Calls("exit"), _exitCallbacks[toString(S1)])
              /\ (Validated /\ last.arg = S2 /\ ~Returned(Calls("exit"), "throw"))
                    => FoldStopsAtFirstFailure(Calls("enter"), _enterCallbacks[toString(S1)])
              /\ (Validated /\ last.arg = S2 /\ Committed)
                    => ForEachStopsAtFirstThrow(Calls("on"), _onCallbacks[toString(S1)])
              /\ \A s \in States \ {S2} :
                    ~HasEdge(s, S2) => ~canGo(s, S2)
              /\ (last.op = "go" /\ last.arg = S2 /\ last.cur # S2 /\ ~HasEdge(last.cur, S2))
                    => last.outcome = "error"
              /\ (last.op = "canGo" /\ last.arg = S2 /\ last.cur # S2 /\ ~HasEdge(last.cur, S2))
                    => last.outcome = "false"

\* C16: every callback having been registered for the number 1, a go from the
\* number 0 to the string "1" over the edge (0, "1") called an enter guard and
\* an on-commit callback and committed, while canGo to the number 1 is false
\* in the number 0
KeyCollisionReached ==
    /\ last.op = "go" /\ last.cur = Idle /\ last.arg = RunningText
    /\ ~HasEdge(Idle, Running)
    /\ Len(Calls("enter")) = 1 /\ Len(Calls("on")) = 1
    /\ currentState = RunningText

\* C17: re-entrancy. For every commit performed by go(target), currentState
\* immediately before the assignment is the state against which canGo(target)
\* was validated at the start of that go, so the change made by the assignment
\* follows a registered edge or is a self-transition, also when guards call
\* reset on the engine while the fold is running.
CommitFollowsValidation ==
    \A i \in DOMAIN trace :
        (last.op = "go" /\ trace[i].kind = "assign")
           => /\ trace[i].cur = last.cur
              /\ trace[i].cur = last.arg \/ HasEdge(trace[i].cur, last.arg)

\* C17: a go(target) validated in one state has assigned target over another
\* state, its start state, from which no edge leads to target
CommitFollowsValidationBroken ==
    /\ last.op = "go" /\ Committed
    /\ Calls("assign")[1].cur = _startState
    /\ _startState # last.cur
    /\ _startState # last.arg /\ ~HasEdge(_startState, last.arg)
    /\ currentState = last.arg

\* C18: reachability invariant. After any sequence of registrations, go calls
\* (committed, rejected or raising) and resets, currentState is the start state
\* given at construction or the 'to' state of a registered edge; a go that
\* changed currentState moved it to the 'to' state of a registered edge.
CurrentStateDeclared ==
    /\ \/ currentState = _startState
       \/ \E i \in DOMAIN _transitionFunctions : _transitionFunctions[i].to = currentState
    /\ (last.op = "go" /\ currentState # last.cur)
          => \E i \in DOMAIN _transitionFunctions : _transitionFunctions[i].to = currentState

\* C18: the engine is away from its start state, in a state it reached by an
\* earlier go, after a go that raised
CurrentStateDeclaredReached ==
    /\ currentState # _startState
    /\ last.op = "go" /\ last.outcome \in {"error", "exception"}

\* C19: the enter phase is independent of the exit result. In every validated
\* go(target) in which no exit guard raises, the first-registered enter guard
\* of target is called exactly once, also when the exit fold yielded false;
\* and an exit guard that returned false rules the commit out.
EnterPhaseIndependent ==
    /\ (Validated /\ ~Returned(Calls("exit"), "throw") /\ EnterGuards # <<>>)
          => /\ Calls("enter") # <<>>
             /\ Calls("enter")[1].id = EnterGuards[1]
             /\ Cardinality({i \in DOMAIN Calls("enter") : Calls("enter")[i].id = EnterGuards[1]}) = 1
    /\ (Validated /\ Returned(Calls("exit"), "false")) => ~Committed

\* C19: over an edge to another state, an exit guard returned false and the
\* first enter guard of the target was called all the same, and nothing was
\* committed
EnterPhaseIndependentReached ==
    /\ last.op = "go" /\ last.arg # last.cur /\ HasEdge(last.cur, last.arg)
    /\ Returned(Calls("exit"), "false")
    /\ Len(Calls("enter")) = 1 /\ Calls("enter")[1].id = 1
    /\ currentState = last.cur /\ ~Committed

\* C20: edges are monotone. No step removes or moves a stored edge; every step
\* but to(...) leaves the array of edges as it is; hence a canGo(t) that is
\* true for a current state s stays true for s in every later state.
EdgesMonotone ==
    [][\/ _transitionFunctions' = _transitionFunctions
       \/ /\ last'.op = "to"
          /\ Len(_transitionFunctions) <= Len(_transitionFunctions')
          /\ SubSeq(_transitionFunctions', 1, Len(_transitionFunctions)) = _transitionFunctions
          /\ \A s \in States, t \in States : canGo(s, t) => canGo(s, t)']_vars

\* C20: canGo answers true over the edge that was stored first, two more edges
\* having been stored since
EdgesMonotoneReached ==
    /\ last.op = "canGo" /\ last.outcome = "true"
    /\ last.arg # currentState
    /\ Len(_transitionFunctions) = 3
    /\ _transitionFunctions[1] = TransitionFunction(currentState, last.arg)
====
